---- MODULE Spec2Model ----
(***************************************************************************)
(* A model of the expense tracker's request handlers (src/app.py): the     *)
(* SQLite store with its constraints, the Flask session, and one operator  *)
(* per route handler.  Text is a sequence of one-character strings, so     *)
(* that strip(), isdigit(), int(), float() and SQLite's text comparison    *)
(* are computed and not assumed.                                           *)
(***************************************************************************)
EXTENDS Integers, Sequences, FiniteSets, TLC

VARIABLES db, session, pending, resp

vars == <<db, session, pending, resp>>

(***************************************************************************)
(* Bounds of the model.                                                    *)
(***************************************************************************)
\* successful INSERTs into expenses in Spec and SpecConc
MaxExpenses == 2
\* successful INSERTs into expenses in SpecAgg
MaxRows == 3
\* bits of a float's significand (53 in the program's doubles)
MantBits == 2

(***************************************************************************)
(* Text.                                                                   *)
(***************************************************************************)
Digits == {"0", "1", "2", "3", "4", "5", "6", "7", "8", "9"}

\* str.isdigit() also accepts characters that int() does not, such as the
\* superscript two.
DigitChars == Digits \cup {"²"}

Whitespace == {" "}

RECURSIVE LStrip(_)
LStrip(s) ==
    IF s # <<>> /\ Head(s) \in Whitespace THEN LStrip(Tail(s)) ELSE s

RECURSIVE RStrip(_)
RStrip(s) ==
    IF s # <<>> /\ s[Len(s)] \in Whitespace
    THEN RStrip(SubSeq(s, 1, Len(s) - 1))
    ELSE s

Strip(s) == RStrip(LStrip(s))

IsDigit(s) == s # <<>> /\ \A i \in 1..Len(s) : s[i] \in DigitChars

DigitVal(ch) ==
    CASE ch = "0" -> 0 [] ch = "1" -> 1 [] ch = "2" -> 2 [] ch = "3" -> 3
      [] ch = "4" -> 4 [] ch = "5" -> 5 [] ch = "6" -> 6 [] ch = "7" -> 7
      [] ch = "8" -> 8 [] ch = "9" -> 9

RECURSIVE Decimal(_)
Decimal(s) ==
    IF s = <<>> THEN 0
    ELSE 10 * Decimal(SubSeq(s, 1, Len(s) - 1)) + DigitVal(s[Len(s)])

AllDecimal(s) == s # <<>> /\ \A i \in 1..Len(s) : s[i] \in Digits

\* int(text) for unsigned text: the value, or ValueError.
IntOf(s) ==
    LET t == Strip(s) IN
    IF AllDecimal(t) THEN [ok |-> TRUE, v |-> Decimal(t)]
    ELSE [ok |-> FALSE, v |-> 0]

\* The byte order SQLite compares TEXT in (BINARY collation), for the
\* characters of dates; every other character counts as one letter.
Code(ch) ==
    CASE ch = " " -> 32 [] ch = "-" -> 45 [] ch = "/" -> 47
      [] ch \in Digits -> 48 + DigitVal(ch)
      [] OTHER -> 97

RECURSIVE TextLe(_, _)
TextLe(a, b) ==
    IF a = <<>> THEN TRUE
    ELSE IF b = <<>> THEN FALSE
    ELSE IF Code(Head(a)) # Code(Head(b)) THEN Code(Head(a)) < Code(Head(b))
    ELSE TextLe(Tail(a), Tail(b))

(***************************************************************************)
(* Floats: a binary float of MantBits significand bits, round to nearest,  *)
(* ties to even, with unit 1 as its smallest magnitude.                    *)
(***************************************************************************)
RECURSIVE Pow(_, _)
Pow(b, n) == IF n = 0 THEN 1 ELSE b * Pow(b, n - 1)

\* n / d rounded to the nearest integer, ties to even (n >= 0, d > 0).
DivRound(n, d) ==
    LET q == n \div d
        r == n % d
    IN  IF 2 * r > d \/ (2 * r = d /\ q % 2 = 1) THEN q + 1 ELSE q

\* The least e with n < 2^(MantBits + e): the bits a significand must drop.
RECURSIVE ShiftOf(_, _)
ShiftOf(n, e) == IF n < Pow(2, MantBits + e) THEN e ELSE ShiftOf(n, e + 1)

\* The representable magnitude nearest to n / d.
RoundRatio(n, d) ==
    LET e == ShiftOf(n \div d, 0)
    IN  DivRound(n, d * Pow(2, e)) * Pow(2, e)

RoundMant(n) == RoundRatio(n, 1)

Abs(i) == IF i < 0 THEN 0 - i ELSE i

Fin(i) == [k |-> "fin", v |-> i]
NaN == [k |-> "nan", v |-> 0]
FZero == Fin(0)

IsNaN(x) == x.k = "nan"

\* x <= 0 and x >= 0 as IEEE compares: false for NaN.
FLeZero(x) == x.k # "nan" /\ x.v <= 0
FGeZero(x) == x.k # "nan" /\ x.v >= 0

FAdd(a, b) ==
    IF IsNaN(a) \/ IsNaN(b) THEN NaN
    ELSE IF a.k = "inf" /\ b.k = "inf" THEN (IF a.v = b.v THEN a ELSE NaN)
    ELSE IF a.k = "inf" THEN a
    ELSE IF b.k = "inf" THEN b
    ELSE LET s == a.v + b.v
         IN  Fin((IF s < 0 THEN 0 - 1 ELSE 1) * RoundMant(Abs(s)))

\* The positions of "." in a literal.
Points(b) == {i \in 1..Len(b) : b[i] = "."}

DigitsOrEmpty(b) == \A i \in 1..Len(b) : b[i] \in Digits

\* The magnitude of an unsigned literal: digits, with an optional point.
Magnitude(b) ==
    IF Points(b) = {} THEN
        IF AllDecimal(b) THEN [ok |-> TRUE, v |-> RoundMant(Decimal(b))]
        ELSE [ok |-> FALSE, v |-> 0]
    ELSE IF Cardinality(Points(b)) > 1 THEN [ok |-> FALSE, v |-> 0]
    ELSE LET i == CHOOSE j \in Points(b) : TRUE
             ip == SubSeq(b, 1, i - 1)
             fp == SubSeq(b, i + 1, Len(b))
         IN  IF DigitsOrEmpty(ip) /\ DigitsOrEmpty(fp) /\ ip \o fp # <<>>
             THEN [ok |-> TRUE,
                   v |-> RoundRatio(Decimal(ip \o fp), Pow(10, Len(fp)))]
             ELSE [ok |-> FALSE, v |-> 0]

\* float(text): the value, or ValueError (ok = FALSE).  Exponent notation,
\* digit separators and upper-case spellings are not modelled.
ParseFloat(s) ==
    LET t == Strip(s)
        signed == t # <<>> /\ Head(t) \in {"+", "-"}
        sgn == IF signed /\ Head(t) = "-" THEN 0 - 1 ELSE 1
        b == IF signed THEN Tail(t) ELSE t
    IN  IF b = <<"n", "a", "n">> THEN [ok |-> TRUE, v |-> NaN]
        ELSE IF b = <<"i", "n", "f">> THEN [ok |-> TRUE, v |-> [k |-> "inf", v |-> sgn]]
        ELSE LET m == Magnitude(b)
             IN  IF m.ok THEN [ok |-> TRUE, v |-> Fin(sgn * m.v)]
                 ELSE [ok |-> FALSE, v |-> FZero]

(***************************************************************************)
(* The store: the three tables and sqlite_sequence (AUTOINCREMENT).        *)
(***************************************************************************)
t_student == <<"s", "t", "u", "d", "e", "n", "t">>
t_student123 == <<"s", "t", "u", "d", "e", "n", "t", "1", "2", "3">>
t_admin == <<"a", "d", "m", "i", "n">>
t_admin123 == <<"a", "d", "m", "i", "n", "1", "2", "3">>

default_categories ==
    << <<"F", "o", "o", "d">>,
       <<"T", "r", "a", "n", "s", "p", "o", "r", "t">>,
       <<"R", "e", "n", "t">>,
       <<"S", "h", "o", "p", "p", "i", "n", "g">>,
       <<"B", "i", "l", "l", "s">>,
       <<"O", "t", "h", "e", "r">> >>

EmptyDb ==
    [users |-> {}, categories |-> {}, expenses |-> {},
     seq |-> [users |-> 0, categories |-> 0, expenses |-> 0]]

Ids(rows) == {r.id : r \in rows}

MaxOf(S) == IF S = {} THEN 0 ELSE CHOOSE m \in S : \A x \in S : x <= m

\* The rowid an AUTOINCREMENT table gives its next row: above every rowid
\* it has ever held.
NextId(rows, last) == MaxOf(Ids(rows) \cup {last}) + 1

Done(d) == [db |-> d, err |-> "none"]
Failed(d, e) == [db |-> d, err |-> e]

\* INSERT [OR IGNORE] INTO users: username is UNIQUE, role is checked.
InsertUserReplace(d, username, password, role, orIgnore) ==
    LET id == NextId(d.users, d.seq.users)
        kept == {u \in d.users : u.username # username}
        gone == Ids(d.users) \ Ids(kept)
    IN  Done([d EXCEPT !.users = kept \cup {[id |-> id, username |-> username,
                                             password |-> password, role |-> role]},
                       !.expenses = {e \in d.expenses : e.user_id \notin gone},
                       !.seq.users = id])
InsertUser(d, username, password, role, orIgnore) ==
    IF role \notin {"user", "admin"} THEN
        IF orIgnore THEN Done(d) ELSE Failed(d, "IntegrityError")
    ELSE IF \E u \in d.users : u.username = username THEN
        IF orIgnore THEN Done(d) ELSE Failed(d, "IntegrityError")
    ELSE LET id == NextId(d.users, d.seq.users)
         IN  Done([d EXCEPT !.users = @ \cup {[id |-> id, username |-> username,
                                               password |-> password, role |-> role]},
                            !.seq.users = id])

\* INSERT [OR IGNORE] INTO categories: name is UNIQUE.
InsertCategory(d, name, orIgnore) ==
    IF \E c \in d.categories : c.name = name THEN
        IF orIgnore THEN Done(d) ELSE Failed(d, "IntegrityError")
    ELSE LET id == NextId(d.categories, d.seq.categories)
         IN  Done([d EXCEPT !.categories = @ \cup {[id |-> id, name |-> name]},
                            !.seq.categories = id])

\* The constraints of an expenses row: amount REAL NOT NULL CHECK(amount >= 0)
\* (a NaN is bound as NULL), and the two foreign keys.
ExpenseRowOk(d, user_id, category_id, amount) ==
    /\ ~IsNaN(amount)
    /\ FGeZero(amount)
    /\ user_id \in Ids(d.users)
    /\ category_id \in Ids(d.categories)

InsertExpense(d, user_id, category_id, amount, description, expense_date, is_essential) ==
    IF ~ExpenseRowOk(d, user_id, category_id, amount) THEN Failed(d, "IntegrityError")
    ELSE LET id == NextId(d.expenses, d.seq.expenses)
         IN  Done([d EXCEPT !.expenses = @ \cup
                                {[id |-> id, user_id |-> user_id,
                                  category_id |-> category_id, amount |-> amount,
                                  description |-> description,
                                  expense_date |-> expense_date,
                                  is_essential |-> is_essential]},
                            !.seq.expenses = id])

\* UPDATE expenses SET ... WHERE id = ?: no row, no change.
UpdateExpenseUpsert(d, id, category_id, amount, description, expense_date, is_essential) ==
    Done([d EXCEPT !.expenses = {e \in @ : e.id # id} \cup
                       {[id |-> id, user_id |-> MaxOf(Ids(d.users)),
                         category_id |-> category_id, amount |-> amount,
                         description |-> description,
                         expense_date |-> expense_date,
                         is_essential |-> is_essential]}])
UpdateExpense(d, id, category_id, amount, description, expense_date, is_essential) ==
    IF id \notin Ids(d.expenses) THEN Done(d)
    ELSE LET old == CHOOSE e \in d.expenses : e.id = id
         IN  IF ~ExpenseRowOk(d, old.user_id, category_id, amount)
             THEN Failed(d, "IntegrityError")
             ELSE Done([d EXCEPT !.expenses = (@ \ {old}) \cup
                            {[old EXCEPT !.category_id = category_id,
                                         !.amount = amount,
                                         !.description = description,
                                         !.expense_date = expense_date,
                                         !.is_essential = is_essential]}])

\* DELETE FROM expenses WHERE id = ?
DeleteExpense(d, id) == Done([d EXCEPT !.expenses = {e \in @ : e.id # id}])

\* init_db: CREATE TABLE IF NOT EXISTS, then the seed rows, INSERT OR IGNORE.
RECURSIVE SeedCategories(_, _)
SeedCategories(d, i) ==
    IF i > Len(default_categories) THEN d
    ELSE SeedCategories(InsertCategory(d, default_categories[i], TRUE).db, i + 1)

SeedUserReplace(d, username, password, role) ==
    InsertUserReplace(d, username, password, role, TRUE).db
SeedUser(d, username, password, role) ==
    InsertUser(d, username, password, role, TRUE).db

init_db(d) ==
    SeedUser(SeedUser(SeedCategories(d, 1), t_student, t_student123, "user"),
             t_admin, t_admin123, "admin")

\* before_request: every request starts with init_db.
ensure_db_ready(d) == init_db(d)

(***************************************************************************)
(* The session and the responses.                                          *)
(***************************************************************************)
NoSession == [logged |-> FALSE, user_id |-> 0, username |-> <<>>, role |-> "none"]

current_user_id(sess) == sess.user_id

is_admin(sess) == sess.role = "admin"

\* A response: what the handler returned (a rendered template, a redirect,
\* or an exception that ends the request), the messages it flashed, and for
\* the listing the data handed to the template.
Response(op, status, target, notices) ==
    [op |-> op, status |-> status, target |-> target, notices |-> notices,
     rows |-> <<>>, total |-> FZero, totals_by_category |-> <<>>]

Render(op, template, notices) == Response(op, "render", template, notices)
Redirect(op, endpoint, notices) == Response(op, "redirect", endpoint, notices)
Raised(op, exception) == Response(op, "error", exception, <<>>)

Out(d, sess, r) == [db |-> d, session |-> sess, resp |-> r]

login_required(d, sess, op, view) ==
    IF ~sess.logged
    THEN Out(d, sess, Redirect(op, "login", <<"Please log in to continue.">>))
    ELSE view

admin_required_off(d, sess, op, view) == view
admin_required(d, sess, op, view) ==
    IF sess.role # "admin"
    THEN Out(d, sess, Redirect(op, "index", <<"Admin access required.">>))
    ELSE view

index(d, sess) == Out(d, sess, Render("index", "index.html", <<>>))

login(d, sess, method, username_in, password) ==
    IF method # "POST" THEN Out(d, sess, Render("login", "login.html", <<>>))
    ELSE LET username == Strip(username_in)
             found == {u \in d.users : u.username = username /\ u.password = password}
         IN  IF username = <<>> \/ password = <<>> THEN
                 Out(d, sess, Render("login", "login.html",
                                     <<"Please enter both username and password.">>))
             ELSE IF found = {} THEN
                 Out(d, sess, Render("login", "login.html", <<"Invalid login details.">>))
             ELSE LET user == CHOOSE u \in found : TRUE
                  IN  Out(d, [logged |-> TRUE, user_id |-> user.id,
                              username |-> user.username, role |-> user.role],
                          Redirect("login", "expenses", <<"Logged in.">>))

logout(d, sess) ==
    Out(d, NoSession, Redirect("logout", "index", <<"You have been logged out.">>))

(***************************************************************************)
(* GET /expenses: the filters, the query and the totals.                   *)
(***************************************************************************)
OwnerClauseOff(sess, e) == TRUE
OwnerClause(sess, e) == is_admin(sess) \/ e.user_id = current_user_id(sess)

\* The WHERE clauses built from the stripped query parameters.
Matches(sess, q, e) ==
    /\ OwnerClause(sess, e)
    /\ IsDigit(q.category_id) => e.category_id = IntOf(q.category_id).v
    /\ q.from # <<>> => TextLe(q.from, e.expense_date)
    /\ q.to # <<>> => TextLe(e.expense_date, q.to)
    /\ q.essential \in {<<"0">>, <<"1">>} => e.is_essential = IntOf(q.essential).v

\* ORDER BY e.expense_date DESC, e.id DESC
Before(a, b) ==
    IF a.expense_date = b.expense_date THEN a.id > b.id
    ELSE TextLe(b.expense_date, a.expense_date)

RECURSIVE Ordered(_)
Ordered(S) ==
    IF S = {} THEN <<>>
    ELSE LET first == CHOOSE a \in S : \A b \in S \ {a} : Before(a, b)
         IN  <<first>> \o Ordered(S \ {first})

\* The SELECT with its two JOINs: one row for each matching expense whose
\* category and user exist.
Select(d, sess, q) ==
    LET hit == {e \in d.expenses :
                   /\ Matches(sess, q, e)
                   /\ e.category_id \in Ids(d.categories)
                   /\ e.user_id \in Ids(d.users)}
        rowOf(e) ==
            [id |-> e.id, amount |-> e.amount, description |-> e.description,
             expense_date |-> e.expense_date, is_essential |-> e.is_essential,
             category_name |-> (CHOOSE c \in d.categories : c.id = e.category_id).name,
             owner |-> (CHOOSE u \in d.users : u.id = e.user_id).username]
        sorted == Ordered(hit)
    IN  [i \in 1..Len(sorted) |-> rowOf(sorted[i])]

\* totals_by_category[cname] = totals_by_category.get(cname, 0.0) + amt, on a
\* dict that keeps its keys in insertion order.
DictGet(dict, key, default) ==
    IF \E i \in 1..Len(dict) : dict[i].key = key
    THEN dict[CHOOSE i \in 1..Len(dict) : dict[i].key = key].val
    ELSE default

DictSet(dict, key, val) ==
    IF \E i \in 1..Len(dict) : dict[i].key = key
    THEN [i \in 1..Len(dict) |->
             IF dict[i].key = key THEN [key |-> key, val |-> val] ELSE dict[i]]
    ELSE Append(dict, [key |-> key, val |-> val])

AddToCategoryOverwrite(dict, cname, amt) == DictSet(dict, cname, amt)
AddToCategory(dict, cname, amt) ==
    DictSet(dict, cname, FAdd(DictGet(dict, cname, FZero), amt))

\* The loop over the rows, from row i on.
RECURSIVE Totals(_, _, _, _)
Totals(rows, i, total, by_category) ==
    IF i > Len(rows) THEN [total |-> total, totals_by_category |-> by_category]
    ELSE Totals(rows, i + 1, FAdd(total, rows[i].amount),
                AddToCategory(by_category, rows[i].category_name, rows[i].amount))

expenses_view(d, sess, q_in) ==
    LET q == [category_id |-> Strip(q_in.category_id), from |-> Strip(q_in.from),
              to |-> Strip(q_in.to), essential |-> Strip(q_in.essential)]
    IN  IF IsDigit(q.category_id) /\ ~IntOf(q.category_id).ok
        THEN Out(d, sess, Raised("expenses", "ValueError"))
        ELSE LET rows == Select(d, sess, q)
                 t == Totals(rows, 1, FZero, <<>>)
             IN  Out(d, sess,
                     [Render("expenses", "expenses.html", <<>>) EXCEPT
                         !.rows = rows, !.total = t.total,
                         !.totals_by_category = t.totals_by_category])

expenses(d, sess, q_in) ==
    login_required(d, sess, "expenses", expenses_view(d, sess, q_in))

(***************************************************************************)
(* The expense forms.                                                      *)
(***************************************************************************)
t_on == <<"o", "n">>

\* The stripped fields of a submitted form.
Fields(form) ==
    [category_id |-> Strip(form.category_id), amount |-> Strip(form.amount),
     description |-> Strip(form.description),
     expense_date |-> Strip(form.expense_date),
     is_essential |-> IF form.is_essential = t_on THEN 1 ELSE 0]

\* try: amount_f = float(amount); if amount_f <= 0: ... except ValueError: ...
AmountErrorsNegativeOnly(amount) ==
    LET f == ParseFloat(amount)
    IN  IF ~f.ok THEN <<"Please enter a valid number for amount.">>
        ELSE IF f.v.k # "nan" /\ f.v.v < 0 THEN <<"Amount must be greater than 0.">>
        ELSE <<>>
AmountErrors(amount) ==
    LET f == ParseFloat(amount)
    IN  IF ~f.ok THEN <<"Please enter a valid number for amount.">>
        ELSE IF FLeZero(f.v) THEN <<"Amount must be greater than 0.">>
        ELSE <<>>

\* The validation both forms run: every violated rule, in order.
FormErrors(f) ==
    (IF ~IsDigit(f.category_id) THEN <<"Please select a valid category.">> ELSE <<>>)
    \o AmountErrors(f.amount)
    \o (IF f.description = <<>> THEN <<"Description is required.">> ELSE <<>>)
    \o (IF f.expense_date = <<>> THEN <<"Date is required (YYYY-MM-DD).">> ELSE <<>>)

add_expense_view(d, sess, method, form) ==
    IF method # "POST" THEN Out(d, sess, Render("add_expense", "add_expense.html", <<>>))
    ELSE LET f == Fields(form)
             errors == FormErrors(f)
         IN  IF errors # <<>> THEN
                 Out(d, sess, Render("add_expense", "add_expense.html", errors))
             ELSE IF ~IntOf(f.category_id).ok THEN
                 Out(d, sess, Raised("add_expense", "ValueError"))
             ELSE LET ins == InsertExpense(d, current_user_id(sess),
                                           IntOf(f.category_id).v,
                                           ParseFloat(f.amount).v, f.description,
                                           f.expense_date, f.is_essential)
                  IN  IF ins.err # "none"
                      THEN Out(d, sess, Raised("add_expense", ins.err))
                      ELSE Out(ins.db, sess,
                               Redirect("add_expense", "expenses",
                                        <<"Expense added successfully.">>))

add_expense(d, sess, method, form) ==
    login_required(d, sess, "add_expense", add_expense_view(d, sess, method, form))

\* Users can change only their own rows; an administrator can change all.
PermittedAlways(sess, owner_id) == TRUE
Permitted(sess, owner_id) == is_admin(sess) \/ owner_id = current_user_id(sess)

\* The SELECT by id and the permission check that open edit and delete:
\* "ok", or the redirect that ends the request.
LoadUnchecked(d, sess, op, expense_id, denied) ==
    IF expense_id \notin Ids(d.expenses) THEN
        [ok |-> FALSE, out |-> Out(d, sess, Raised(op, "TypeError"))]
    ELSE IF ~Permitted(sess, (CHOOSE e \in d.expenses : e.id = expense_id).user_id) THEN
        [ok |-> FALSE, out |-> Out(d, sess, Redirect(op, "expenses", <<denied>>))]
    ELSE [ok |-> TRUE, out |-> Out(d, sess, Render(op, "", <<>>))]
Load(d, sess, op, expense_id, denied) ==
    IF expense_id \notin Ids(d.expenses) THEN
        [ok |-> FALSE,
         out |-> Out(d, sess, Redirect(op, "expenses", <<"Expense not found.">>))]
    ELSE IF ~Permitted(sess, (CHOOSE e \in d.expenses : e.id = expense_id).user_id) THEN
        [ok |-> FALSE, out |-> Out(d, sess, Redirect(op, "expenses", <<denied>>))]
    ELSE [ok |-> TRUE, out |-> Out(d, sess, Render(op, "", <<>>))]

\* edit_expense after the row was loaded and the permission granted.
edit_expense_form(d, sess, expense_id, method, form) ==
    IF method # "POST" THEN Out(d, sess, Render("edit_expense", "edit_expense.html", <<>>))
    ELSE LET f == Fields(form)
             errors == FormErrors(f)
         IN  IF errors # <<>> THEN
                 Out(d, sess, Render("edit_expense", "edit_expense.html", errors))
             ELSE IF ~IntOf(f.category_id).ok THEN
                 Out(d, sess, Raised("edit_expense", "ValueError"))
             ELSE LET upd == UpdateExpense(d, expense_id, IntOf(f.category_id).v,
                                           ParseFloat(f.amount).v, f.description,
                                           f.expense_date, f.is_essential)
                  IN  IF upd.err # "none"
                      THEN Out(d, sess, Raised("edit_expense", upd.err))
                      ELSE Out(upd.db, sess,
                               Redirect("edit_expense", "expenses", <<"Expense updated.">>))

edit_load(d, sess, expense_id) ==
    Load(d, sess, "edit_expense", expense_id,
         "You do not have permission to edit this item.")

edit_expense_view(d, sess, expense_id, method, form) ==
    LET loaded == edit_load(d, sess, expense_id)
    IN  IF ~loaded.ok THEN loaded.out
        ELSE edit_expense_form(d, sess, expense_id, method, form)

edit_expense(d, sess, expense_id, method, form) ==
    login_required(d, sess, "edit_expense",
                   edit_expense_view(d, sess, expense_id, method, form))

\* delete_expense after the row was loaded and the permission granted.
delete_expense_row(d, sess, expense_id) ==
    Out(DeleteExpense(d, expense_id).db, sess,
        Redirect("delete_expense", "expenses", <<"Expense deleted.">>))

delete_load(d, sess, expense_id) ==
    Load(d, sess, "delete_expense", expense_id,
         "You do not have permission to delete this item.")

delete_expense_view(d, sess, expense_id) ==
    LET loaded == delete_load(d, sess, expense_id)
    IN  IF ~loaded.ok THEN loaded.out
        ELSE delete_expense_row(d, sess, expense_id)

delete_expense(d, sess, expense_id) ==
    login_required(d, sess, "delete_expense", delete_expense_view(d, sess, expense_id))

(***************************************************************************)
(* Categories and registration.                                            *)
(***************************************************************************)
categories_view(d, sess, method, name_in) ==
    IF method # "POST" THEN Out(d, sess, Render("categories", "categories.html", <<>>))
    ELSE LET name == Strip(name_in)
         IN  IF name = <<>> THEN
                 Out(d, sess, Redirect("categories", "categories",
                                       <<"Category name is required.">>))
             ELSE LET ins == InsertCategory(d, name, FALSE)
                  IN  IF ins.err # "none" THEN
                          Out(d, sess, Redirect("categories", "categories",
                                                <<"That category already exists.">>))
                      ELSE Out(ins.db, sess, Redirect("categories", "categories",
                                                      <<"Category added.">>))

categories(d, sess, method, name_in) ==
    login_required(d, sess, "categories",
        admin_required(d, sess, "categories", categories_view(d, sess, method, name_in)))

register(d, sess, method, username_in, password_in) ==
    IF method # "POST" THEN Out(d, sess, Render("register", "register.html", <<>>))
    ELSE LET username == Strip(username_in)
             password == Strip(password_in)
         IN  IF username = <<>> \/ password = <<>> THEN
                 Out(d, sess, Render("register", "register.html",
                                     <<"Username and password are required.">>))
             ELSE LET ins == InsertUser(d, username, password, "user", FALSE)
                  IN  IF ins.err # "none" THEN
                          Out(d, sess, Render("register", "register.html",
                                              <<"Username already exists.">>))
                      ELSE Out(ins.db, sess,
                               Redirect("register", "login",
                                        <<"Account created successfully. Please log in.">>))

(***************************************************************************)
(* The state machine.  A client is one browser with its session cookie.    *)
(***************************************************************************)
Clients == {1, 2}

NoPending == [op |-> "none", id |-> 0]

Idle(c) == pending[c].op = "none"

\* The request of client c ends with the outcome out.
Respond(c, method, id, out) ==
    \E o \in {out} :
        /\ db' = o.db
        /\ session' = [session EXCEPT ![c] = o.session]
        /\ pending' = [pending EXCEPT ![c] = NoPending]
        /\ resp' = [client |-> c, method |-> method, id |-> id, r |-> o.resp]

Index(c) ==
    /\ Idle(c)
    /\ Respond(c, "GET", 0, index(ensure_db_ready(db), session[c]))

Login(c, method, username, password) ==
    /\ Idle(c)
    /\ Respond(c, method, 0,
               login(ensure_db_ready(db), session[c], method, username, password))

Logout(c) ==
    /\ Idle(c)
    /\ Respond(c, "GET", 0, logout(ensure_db_ready(db), session[c]))

ListExpenses(c, q) ==
    /\ Idle(c)
    /\ Respond(c, "GET", 0, expenses(ensure_db_ready(db), session[c], q))

AddExpense(c, method, form) ==
    /\ Idle(c)
    /\ Respond(c, method, 0,
               add_expense(ensure_db_ready(db), session[c], method, form))

EditExpense(c, expense_id, method, form) ==
    /\ Idle(c)
    /\ Respond(c, method, expense_id,
               edit_expense(ensure_db_ready(db), session[c], expense_id, method, form))

DeleteExpenseReq(c, expense_id) ==
    /\ Idle(c)
    /\ Respond(c, "POST", expense_id,
               delete_expense(ensure_db_ready(db), session[c], expense_id))

Categories(c, method, name) ==
    /\ Idle(c)
    /\ Respond(c, method, 0,
               categories(ensure_db_ready(db), session[c], method, name))

Register(c, method, username, password) ==
    /\ Idle(c)
    /\ Respond(c, method, 0,
               register(ensure_db_ready(db), session[c], method, username, password))

\* Edit and delete as the two store accesses they are: the SELECT with the
\* permission check, and later the write, other requests running in between.
Begin(c, op, expense_id, loaded) ==
    LET d == ensure_db_ready(db)
        out == login_required(d, session[c], op, loaded.out)
    IN  /\ Idle(c)
        /\ IF session[c].logged /\ loaded.ok
           THEN /\ db' = d
                /\ pending' = [pending EXCEPT ![c] = [op |-> op, id |-> expense_id]]
                /\ UNCHANGED <<session, resp>>
           ELSE Respond(c, "POST", expense_id, out)

EditBegin(c, expense_id) ==
    Begin(c, "edit_expense", expense_id,
          edit_load(ensure_db_ready(db), session[c], expense_id))

EditEnd(c, method, form) ==
    /\ pending[c].op = "edit_expense"
    /\ Respond(c, method, pending[c].id,
               edit_expense_form(db, session[c], pending[c].id, method, form))

DeleteBegin(c, expense_id) ==
    Begin(c, "delete_expense", expense_id,
          delete_load(ensure_db_ready(db), session[c], expense_id))

DeleteEnd(c) ==
    /\ pending[c].op = "delete_expense"
    /\ Respond(c, "POST", pending[c].id,
               delete_expense_row(db, session[c], pending[c].id))

(***************************************************************************)
(* The inputs the requests are drawn from.                                 *)
(***************************************************************************)
t_bob == <<"b", "o", "b">>
t_pw == <<"p", "w">>
t_lunch == <<"l", "u", "n", "c", "h">>
t_blank == <<" ", " ">>
t_abc == <<"a", "b", "c">>
t_day1 == <<"2", "0", "2", "4", "-", "0", "1", "-", "0", "1">>
t_day2 == <<"2", "0", "2", "4", "-", "0", "1", "-", "0", "2">>
t_gym == <<" ", "G", "y", "m", " ">>

Methods == {"GET", "POST"}

Credentials ==
    { <<t_student, t_student123>>, <<t_admin, t_admin123>>,
      <<t_student, t_pw>>, <<<<" ", "a", "d", "m", "i", "n">>, t_admin123>>,
      <<t_bob, <<>>>> }

Registrations ==
    { <<t_bob, t_pw>>, <<<<"a", "d", "m", "i", "n", " ">>, t_pw>>,
      <<t_student, t_pw>>, <<t_student, t_blank>>, <<t_blank, t_pw>> }

CategoryNames == {t_gym, default_categories[1], t_blank}

Form(category_id, amount, description, expense_date, is_essential) ==
    [category_id |-> category_id, amount |-> amount, description |-> description,
     expense_date |-> expense_date, is_essential |-> is_essential]

t_amount == <<"1", "2", ".", "5", "0">>

GoodForms ==
    { Form(<<"1">>, t_amount, t_lunch, t_day1, t_on),
      Form(<<"2">>, <<" ", "3">>, t_lunch, t_day2, <<>>) }

BadForms ==
    { Form(<<"1">>, <<"0">>, t_lunch, t_day1, <<>>),
      Form(<<"1">>, <<"-", "5">>, t_lunch, t_day1, <<>>),
      Form(<<"1">>, <<"0", ".", "4">>, t_lunch, t_day1, <<>>),
      Form(<<"1">>, t_abc, t_lunch, t_day1, <<>>),
      Form(<<"1">>, <<"n", "a", "n">>, t_lunch, t_day1, <<>>),
      Form(<<"²">>, t_amount, t_lunch, t_day1, <<>>),
      Form(<<"9">>, t_amount, t_lunch, t_day1, <<>>),
      Form(t_abc, <<>>, t_blank, <<>>, t_on) }

\* The forms of SpecList: rows that differ in category, date and flag.
ListForms ==
    { Form(<<"1">>, <<"1">>, t_lunch, t_day1, t_on),
      Form(<<"2">>, <<"2">>, t_lunch, t_day2, <<>>),
      Form(<<"1">>, <<"2">>, t_lunch, t_day2, t_on) }

\* The forms of SpecAgg: amounts whose sums round.
AggForms ==
    { Form(<<"1">>, <<"1">>, t_lunch, t_day2, <<>>),
      Form(<<"2">>, <<"2">>, t_lunch, t_day1, <<>>),
      Form(<<"2">>, <<"3">>, t_lunch, t_day1, <<>>),
      Form(<<"1">>, <<"5">>, t_lunch, t_day1, <<>>) }

Forms == GoodForms \cup BadForms

\* A GET carries no form.
NoForm == Form(<<>>, <<>>, <<>>, <<>>, <<>>)

Query(category_id, from, to, essential) ==
    [category_id |-> category_id, from |-> from, to |-> to, essential |-> essential]

CategoryParams ==
    {<<>>, <<"1">>, <<"2">>, <<"0">>, t_abc, <<"-", "1">>, <<"+", "1">>, <<"²">>, t_blank}
FromParams == {<<>>, t_day2}
ToParams == {<<>>, t_day1}
EssentialParams == {<<>>, <<"1">>, <<"x">>}

\* Every combination of the listing parameters.
Queries ==
    { Query(c, f, t, e) : c \in CategoryParams, f \in FromParams,
                          t \in ToParams, e \in EssentialParams }

\* The listings the browser asks for.
SomeQueries ==
    { Query(<<>>, <<>>, <<>>, <<>>), Query(<<"1">>, <<>>, <<>>, <<>>),
      Query(<<"0">>, <<>>, <<>>, <<>>), Query(<<"²">>, <<>>, <<>>, <<>>),
      Query(t_abc, t_day2, <<>>, <<"0">>) }

ExpenseIds == 1..MaxExpenses

Init ==
    /\ db = EmptyDb
    /\ session = [c \in Clients |-> NoSession]
    /\ pending = [c \in Clients |-> NoPending]
    /\ resp = [client |-> 0, method |-> "none", id |-> 0,
               r |-> Response("none", "none", "", <<>>)]

\* One browser and the expense handlers, every handler running to its end
\* before the next request.
Next ==
    \/ Index(1)
    \/ \E cr \in Credentials : Login(1, "POST", cr[1], cr[2])
    \/ Login(1, "GET", <<>>, <<>>)
    \/ Logout(1)
    \/ \E q \in SomeQueries : ListExpenses(1, q)
    \/ \E f \in Forms : db.seq.expenses < MaxExpenses /\ AddExpense(1, "POST", f)
    \/ AddExpense(1, "GET", NoForm)
    \/ \E id \in ExpenseIds, f \in Forms : EditExpense(1, id, "POST", f)
    \/ \E id \in ExpenseIds : EditExpense(1, id, "GET", NoForm)
    \/ \E id \in ExpenseIds : DeleteExpenseReq(1, id)

Spec == Init /\ [][Next]_vars

\* One browser: accounts, categories and the seed step.
NextAccounts ==
    \/ Index(1)
    \/ \E cr \in Credentials : Login(1, "POST", cr[1], cr[2])
    \/ Logout(1)
    \/ \E f \in GoodForms : db.seq.expenses < MaxExpenses /\ AddExpense(1, "POST", f)
    \/ \E m \in Methods, n \in CategoryNames : Categories(1, m, n)
    \/ \E m \in Methods, rg \in Registrations : Register(1, m, rg[1], rg[2])

SpecAccounts == Init /\ [][NextAccounts]_vars

\* One browser: rows of two owners, and the listing.
NextList ==
    \/ \E cr \in Credentials : Login(1, "POST", cr[1], cr[2])
    \/ \E f \in ListForms : db.seq.expenses < MaxExpenses /\ AddExpense(1, "POST", f)
    \/ \E q \in SomeQueries : ListExpenses(1, q)

SpecList == Init /\ [][NextList]_vars

\* One browser, one owner: the totals of the listing.
NextAgg ==
    \/ Login(1, "POST", t_student, t_student123)
    \/ \E f \in AggForms : db.seq.expenses < MaxRows /\ AddExpense(1, "POST", f)
    \/ \E q \in SomeQueries : ListExpenses(1, q)

SpecAgg == Init /\ [][NextAgg]_vars

\* Two browsers, edit and delete in their two steps.
NextConc ==
    \E c \in Clients :
        \/ \E cr \in {<<t_student, t_student123>>, <<t_admin, t_admin123>>} :
              Login(c, "POST", cr[1], cr[2])
        \/ \E f \in GoodForms : db.seq.expenses < MaxExpenses /\ AddExpense(c, "POST", f)
        \/ \E id \in ExpenseIds : EditBegin(c, id)
        \/ \E f \in GoodForms : EditEnd(c, "POST", f)
        \/ EditEnd(c, "GET", NoForm)
        \/ \E id \in ExpenseIds : DeleteBegin(c, id)
        \/ DeleteEnd(c)

SpecConc == Init /\ [][NextConc]_vars

(***************************************************************************)
(* The properties.                                                         *)
(***************************************************************************)
\* The store as a request finds it, the seed step done.
Ready == ensure_db_ready(db)

ExpenseOf(d, id) == CHOOSE e \in d.expenses : e.id = id

RowIds(r) == {r.rows[i].id : i \in 1..Len(r.rows)}

\* C1: for a session that is not an administrator's, and for every combination
\* of the listing parameters, every row GET /expenses returns belongs to the
\* session's user.  (SpecList)
C1_ListingShowsOwnRowsOnly ==
    /\ \A c \in Clients :
          ~is_admin(session[c]) =>
              \A q \in Queries :
                  \A id \in RowIds(expenses(Ready, session[c], q).resp) :
                      ExpenseOf(Ready, id).user_id = current_user_id(session[c])
    /\ (resp.r.op = "expenses" /\ ~is_admin(session[resp.client])) =>
          \A id \in RowIds(resp.r) :
              ExpenseOf(db, id).user_id = current_user_id(session[resp.client])

\* C1 witness: a member's listing returned rows while another user's rows exist.
C1_Witness ==
    /\ resp.r.op = "expenses"
    /\ Len(resp.r.rows) > 0
    /\ session[1].logged /\ ~is_admin(session[1])
    /\ \E e \in db.expenses : e.user_id # current_user_id(session[1])

\* What the claim calls a category_id that does not parse as a positive
\* integer: anything but decimal digits with a value above 0.
Malformed(category_id) ==
    LET t == Strip(category_id) IN ~(AllDecimal(t) /\ Decimal(t) > 0)

\* C4: on GET /expenses a category_id that does not parse as a positive integer
\* is ignored: same response as with category_id omitted, and no error.
\* (SpecList)
C4_MalformedCategoryIsIgnored ==
    \A c \in Clients :
        session[c].logged =>
            \A q \in Queries :
                Malformed(q.category_id) =>
                    LET got == expenses(Ready, session[c], q).resp
                        omitted == expenses(Ready, session[c],
                                            [q EXCEPT !.category_id = <<>>]).resp
                    IN  got.status # "error" /\ got.rows = omitted.rows

RECURSIVE LeftSum(_)
LeftSum(xs) ==
    IF xs = <<>> THEN FZero
    ELSE FAdd(LeftSum(SubSeq(xs, 1, Len(xs) - 1)), xs[Len(xs)])

AmountsOf(rows) == [i \in 1..Len(rows) |-> rows[i].amount]

RowsOfCategory(rows, cname) == SelectSeq(rows, LAMBDA r : r.category_name = cname)

RECURSIVE FirstSeen(_)
FirstSeen(rows) ==
    IF rows = <<>> THEN <<>>
    ELSE LET before == FirstSeen(SubSeq(rows, 1, Len(rows) - 1))
             cname == rows[Len(rows)].category_name
         IN  IF \E i \in 1..Len(before) : before[i] = cname THEN before
             ELSE Append(before, cname)

Listed == resp.r.op = "expenses" /\ resp.r.status = "render"

\* The total and the subtotals are the sums, added up in floating point in
\* the order of the listing, of the rows returned.
TotalsAreListingSums ==
    LET rows == resp.r.rows
        by == resp.r.totals_by_category
    IN  /\ resp.r.total = LeftSum(AmountsOf(rows))
        /\ [i \in 1..Len(by) |-> by[i].key] = FirstSeen(rows)
        /\ \A i \in 1..Len(by) :
              by[i].val = LeftSum(AmountsOf(RowsOfCategory(rows, by[i].key)))
        /\ rows = <<>> => (resp.r.total = FZero /\ by = <<>>)

\* The subtotals, added up in some order, give the total.
SubtotalsAddUp ==
    LET by == resp.r.totals_by_category
    IN  \E p \in Permutations(1..Len(by)) :
            LeftSum([i \in 1..Len(by) |-> by[p[i]].val]) = resp.r.total

\* C5 as amended: the grand total of GET /expenses is the floating-point sum,
\* in listing order, of the amounts of the rows returned, each category's
\* subtotal is that sum over the returned rows of the category, keyed in
\* first-seen order; an empty result gives total 0 and no subtotals.
\* (SpecAgg)
C5_TotalsAreListingSums == Listed => TotalsAreListingSums

\* C5 as claimed: moreover the subtotals add up to the grand total.
C5_SubtotalsAddUpToTotal == Listed => (TotalsAreListingSums /\ SubtotalsAddUp)

\* C5 witness: a listing of three rows in two categories.
C5_Witness ==
    /\ Listed
    /\ Len(resp.r.rows) >= 3
    /\ Len(resp.r.totals_by_category) = 2

t_denied_edit == "You do not have permission to edit this item."
t_denied_delete == "You do not have permission to delete this item."

\* The session of client c is logged in, is no administrator's and does not
\* own the expense e.
Outsider(c, e) ==
    /\ session[c].logged
    /\ ~is_admin(session[c])
    /\ e.user_id # current_user_id(session[c])

\* C2: an edit (GET or POST) or a delete of an existing expense by a session
\* that neither owns it nor is an administrator's ends in the forbidden
\* redirect and leaves the expenses as they were.  (Spec)
C2_OutsiderIsRefused ==
    [][\A e \in db.expenses :
          (/\ resp'.r.op \in {"edit_expense", "delete_expense"}
           /\ resp'.id = e.id
           /\ resp'.client \in Clients
           /\ Outsider(resp'.client, e))
          => /\ resp'.r.status = "redirect"
             /\ resp'.r.target = "expenses"
             /\ resp'.r.notices =
                    <<IF resp'.r.op = "edit_expense" THEN t_denied_edit
                      ELSE t_denied_delete>>
             /\ db'.expenses = db.expenses]_vars

\* C2 witness: an edit was refused and the expense is there, another user's.
C2_Witness ==
    /\ resp.r.op = "edit_expense"
    /\ resp.method = "POST"
    /\ resp.r.notices = <<t_denied_edit>>
    /\ \E e \in db.expenses : e.id = resp.id /\ Outsider(resp.client, e)

\* An amount that is 0, negative or no number.
BadAmount(amount) ==
    LET f == ParseFloat(amount) IN ~f.ok \/ (f.v.k # "nan" /\ f.v.v <= 0)

\* C3: every stored expense has an amount above 0, and an add or an edit that
\* submits an amount that is 0, negative or no number is rejected and writes
\* nothing.  (Spec)
C3_AmountsArePositive ==
    /\ \A e \in db.expenses : e.amount.k # "nan" /\ e.amount.v > 0
    /\ \A c \in Clients, f \in Forms :
          (session[c].logged /\ BadAmount(f.amount)) =>
              /\ LET out == add_expense(Ready, session[c], "POST", f)
                 IN  /\ out.db = Ready
                     /\ out.resp.status = "render"
                     /\ out.resp.notices # <<>>
              /\ \A id \in ExpenseIds :
                    LET out == edit_expense(Ready, session[c], id, "POST", f)
                    IN  /\ out.db = Ready
                        /\ out.resp.notices # <<"Expense updated.">>

\* C3 witness: an edit with a bad amount was rejected, the row in place.
C3_Witness ==
    /\ resp.r.op = "edit_expense"
    /\ resp.r.status = "render"
    /\ \E i \in 1..Len(resp.r.notices) :
          resp.r.notices[i] = "Amount must be greater than 0."
    /\ resp.id \in Ids(db.expenses)

\* The responses to an edit (GET and POST) and to a delete of expense id.
Answers(d, sess, id) ==
    { edit_expense(d, sess, id, "GET", NoForm), delete_expense(d, sess, id) }
    \cup { edit_expense(d, sess, id, "POST", f) : f \in Forms }

Without(d, e) == [d EXCEPT !.expenses = @ \ {e}]

\* C8 as claimed: to a session that neither owns an expense nor is an
\* administrator's, edit and delete answer the same whether the expense
\* exists or not.
C8_ExistenceIsNotRevealed ==
    \A c \in Clients, e \in db.expenses :
        Outsider(c, e) =>
            /\ edit_expense(db, session[c], e.id, "GET", NoForm).resp
                   = edit_expense(Without(db, e), session[c], e.id, "GET", NoForm).resp
            /\ delete_expense(db, session[c], e.id).resp
                   = delete_expense(Without(db, e), session[c], e.id).resp

\* C8 as amended: both answers are redirects to the listing that change
\* nothing in the store, and they differ in the notice only: "Expense not
\* found." for an id that does not exist, the permission notice for one that
\* does.  (Spec)
C8_SameRedirectOtherNotice ==
    \A c \in Clients, e \in db.expenses :
        Outsider(c, e) =>
            /\ \A a \in Answers(db, session[c], e.id) :
                  /\ a.resp.status = "redirect" /\ a.resp.target = "expenses"
                  /\ a.resp.notices \in {<<t_denied_edit>>, <<t_denied_delete>>}
                  /\ a.db = db
            /\ \A a \in Answers(Without(db, e), session[c], e.id) :
                  /\ a.resp.status = "redirect" /\ a.resp.target = "expenses"
                  /\ a.resp.notices = <<"Expense not found.">>
                  /\ a.db = Without(db, e)

\* C8 witness: a delete of another user's expense was refused.
C8_Witness ==
    /\ resp.r.op = "delete_expense"
    /\ resp.r.notices = <<t_denied_delete>>
    /\ \E e \in db.expenses : e.id = resp.id /\ Outsider(resp.client, e)

Taken(d, username_in) == \E u \in d.users : u.username = Strip(username_in)

\* Every account but the seeded administrator has the role of a member.
OnlySeededAdmin ==
    \A u \in db.users : u.role = "admin" => u.username = t_admin

UsernamesUnique ==
    \A u, v \in db.users : (u.username = v.username \/ u.id = v.id) => u = v

\* C6 as claimed: a POST /register with the name of an existing user reports
\* "Username already exists." and leaves the users as they were.
C6_TakenNameReportsConflict ==
    \A rg \in Registrations :
        Taken(Ready, rg[1]) =>
            LET out == register(Ready, NoSession, "POST", rg[1], rg[2])
            IN  /\ out.resp.notices = <<"Username already exists.">>
                /\ out.db = Ready

\* C6 as amended: a POST /register with the name of an existing user leaves
\* the users as they were, and reports "Username already exists." when the
\* trimmed password is not empty (with an empty one it reports that username
\* and password are required); usernames stay unique, and every account that
\* registration creates is a member's.  (SpecAccounts)
C6_TakenNameChangesNothing ==
    /\ \A rg \in Registrations :
          Taken(Ready, rg[1]) =>
              LET out == register(Ready, NoSession, "POST", rg[1], rg[2])
              IN  /\ out.db = Ready
                  /\ out.resp.status = "render"
                  /\ out.resp.notices =
                         <<IF Strip(rg[2]) = <<>>
                           THEN "Username and password are required."
                           ELSE "Username already exists.">>
    /\ OnlySeededAdmin
    /\ UsernamesUnique
    /\ \E u \in Ready.users :
          u.username = t_student /\ u.password = t_student123 /\ u.role = "user"

\* C6 witness: a registration was refused for its name, another one went through.
C6_Witness ==
    /\ resp.r.op = "register"
    /\ resp.r.notices = <<"Username already exists.">>
    /\ Cardinality(db.users) > 2

Names(d) == {c.name : c \in d.categories}

DefaultNames == {default_categories[i] : i \in 1..Len(default_categories)}

\* C7: a request to /categories without an administrator's session changes
\* no category (beyond the seed step every request starts with); a category
\* that is not a seeded one comes from an administrator's POST /categories
\* and has a trimmed name that is not empty; names are unique; an
\* administrator submitting an existing name gets the "already exists"
\* notice and changes nothing.  (SpecAccounts)
C7_CategoriesAreTheAdministrators ==
    /\ [](/\ \A c \in Clients, m \in Methods, n \in CategoryNames :
               LET out == categories(Ready, session[c], m, n)
               IN  /\ ~is_admin(session[c]) =>
                        /\ out.db = Ready
                        /\ out.resp.status = "redirect"
                        /\ out.resp.target =
                               (IF session[c].logged THEN "index" ELSE "login")
                   /\ (is_admin(session[c]) /\ m = "POST" /\ Strip(n) \in Names(Ready)) =>
                        /\ out.db = Ready
                        /\ out.resp.status = "redirect"
                        /\ out.resp.notices = <<"That category already exists.">>
          /\ \A a, b \in db.categories : (a.name = b.name \/ a.id = b.id) => a = b)
    /\ [][\A cat \in db'.categories \ Ready.categories :
             /\ resp'.r.op = "categories"
             /\ resp'.method = "POST"
             /\ is_admin(session[resp'.client])
             /\ cat.name # <<>> /\ cat.name = Strip(cat.name)
             /\ cat.name \notin DefaultNames]_vars

\* C7 witness: a member was turned away from /categories after an
\* administrator had added a category.
C7_Witness ==
    /\ resp.r.op = "categories"
    /\ resp.r.notices = <<"Admin access required.">>
    /\ Cardinality(db.categories) > Len(default_categories)

\* C9: the seed step is idempotent: once it has run, running it again changes
\* no user, category or expense, and the store holds exactly one category of
\* each default name and one account of each default username.
\* (SpecAccounts)
C9_SeedIsIdempotent ==
    /\ init_db(init_db(db)) = init_db(db)
    /\ db # EmptyDb =>
          /\ init_db(db) = db
          /\ \A n \in DefaultNames : Cardinality({c \in db.categories : c.name = n}) = 1
          /\ \A n \in {t_student, t_admin} :
                Cardinality({u \in db.users : u.username = n}) = 1

\* C9 witness: the seed step ran again (a request for the index page) on a
\* store that holds an expense, an added category and a registered account.
C9_Witness ==
    /\ resp.r.op = "index"
    /\ db.expenses # {}
    /\ Cardinality(db.users) > 2
    /\ Cardinality(db.categories) > Len(default_categories)

\* An id that was given out and whose row is gone.
Deleted(d, id) == id <= d.seq.expenses /\ id \notin Ids(d.expenses)

\* C10: under any interleaving of the steps of add, edit and delete, an
\* expense id goes from nonexistent to active by an add only, stays active
\* under edit, leaves by a delete only, and once deleted never exists
\* again.  (SpecConc)
C10_DeletedStaysDeleted ==
    [][\A id \in 1..(MaxExpenses + 1) :
          /\ Deleted(db, id) => Deleted(db', id)
          /\ (id \notin Ids(db.expenses) /\ id \in Ids(db'.expenses)) =>
                /\ resp'.r.op = "add_expense"
                /\ id = db.seq.expenses + 1
          /\ (id \in Ids(db.expenses) /\ id \notin Ids(db'.expenses)) =>
                resp'.r.op = "delete_expense"
          /\ resp'.r.op = "edit_expense" =>
                Ids(db'.expenses) = Ids(db.expenses)]_vars

\* C10 witness: an edit whose permission check ran before the delete of its
\* expense wrote after it, and the expense is still gone.
C10_Witness ==
    /\ resp.r.op = "edit_expense"
    /\ resp.r.notices = <<"Expense updated.">>
    /\ Deleted(db, resp.id)

====
